---- MODULE Spec2Model ----
(***************************************************************************)
(* docker-stats (src/main.go): a reconciliation loop that polls the        *)
(* container runtime and the filesystem and keeps a set of Prometheus      *)
(* gauge vectors in step with what it saw, next to an HTTP handler that    *)
(* exports the same gauge vectors.                                         *)
(*                                                                         *)
(* One action is one step of the loop goroutine that another goroutine can *)
(* tell apart: a runtime or filesystem call with the bookkeeping up to the *)
(* next registry call, one GaugeVec.With, one Gauge.Set, or one iteration  *)
(* of a removal loop.  Strings are TLA+ strings; TrimPrefix and string     *)
(* concatenation are computed.  A gauge value is an exact rational         *)
(* [num, den] standing for the float64 the code stores.                    *)
(***************************************************************************)
EXTENDS Integers, Sequences, FiniteSets, TLC

(***************************************************************************)
(* Bounds of the model.                                                    *)
(***************************************************************************)
\* distinct usage samples (types.StatsJSON values) the runtime may answer
NumSamples == 2
\* distinct unix.Statfs_t values the filesystem may answer
NumFs == 2
\* usage samples of the deployment that exercises the memory arithmetic
NumMemorySamples == 4

(***************************************************************************)
(* Program constants.                                                      *)
(***************************************************************************)
\* the divisor 1e9 of the CPU counters (nanoseconds to seconds)
NanosPerSecond == 1000000000

containerPrefix == "container_"
dataPrefix == "container_data_"

composeProjectKey == "com.docker.compose.project"
composeServiceKey == "com.docker.compose.service"

(***************************************************************************)
(* Go helpers.                                                             *)
(***************************************************************************)
\* (faulty variant: every leading occurrence of the prefix is removed)
RECURSIVE TrimAll(_, _)
TrimAll(s, prefix) ==
    IF Len(s) >= Len(prefix) /\ SubSeq(s, 1, Len(prefix)) = prefix
    THEN TrimAll(SubSeq(s, Len(prefix) + 1, Len(s)), prefix)
    ELSE s

\* strings.TrimPrefix(s, prefix)
TrimPrefix(s, prefix) ==
    IF Len(s) >= Len(prefix) /\ SubSeq(s, 1, Len(prefix)) = prefix
    THEN SubSeq(s, Len(prefix) + 1, Len(s))
    ELSE s

\* m[k] on a Go map[string]string: the zero value "" for a missing key
MapGet(m, k) == IF k \in DOMAIN m THEN m[k] ELSE ""

\* m[k] on a Go map[string]uint64: the zero value 0 for a missing key
MapGetUint(m, k) == IF k \in DOMAIN m THEN m[k] ELSE 0

\* the empty Go map (make(map[...]...)), also the nil map the globals start as
EmptyMap == [k \in {} |-> 0]

\* m[k] = v on a Go map
MapPut(m, k, v) == [x \in DOMAIN m \cup {k} |-> IF x = k THEN v ELSE m[x]]

\* float64(x) of an unsigned integer x
Float64(x) == [num |-> x, den |-> 1]

\* f / d for a float64 f holding an integer and a positive integer d
FloatDiv(f, d) ==
    IF f.num % d = 0 THEN [num |-> f.num \div d, den |-> 1]
    ELSE [num |-> f.num, den |-> d]

\* the value of a gauge that With has just created
ZeroValue == Float64(0)

\* a - b on uint64 operands: Go wraps around.  The width is scaled down from
\* 64 bits to one TLC's integers can hold.
UintModulus == 65536
Uint64Sub(a, b) == (a - b) % UintModulus

(***************************************************************************)
(* The world the program observes: what the runtime and the filesystem may *)
(* answer.                                                                 *)
(***************************************************************************)
\* a types.Container as ContainerList returns it
ContainerOf(id, names, labels, imageID) ==
    [ID |-> id, Names |-> names, Labels |-> labels, ImageID |-> imageID,
     Image |-> "nginx"]

\* the labels of a container that docker compose started
ComposeLabels ==
    [k \in {composeProjectKey, composeServiceKey} |->
        IF k = composeProjectKey THEN "proj" ELSE "web"]

\* a container of a compose service with one name
Container(id, name) == ContainerOf(id, <<name>>, ComposeLabels, "sha256:ab12")

\* The containers of the model are "c1", which runs as "/web-1" and, after a
\* docker rename, as "/web-9", and "c2", a second container of the same
\* compose project and service, "/web-2".

\* a types.NetworkStats
NetworkStats(s) ==
    [RxBytes |-> 100 * s, TxBytes |-> 200 * s, RxPackets |-> 10 * s,
     TxPackets |-> 20 * s, RxErrors |-> s, TxErrors |-> s + 1,
     RxDropped |-> s + 2, TxDropped |-> s + 3]

\* a types.MemoryStats.  Most samples report a page cache below the usage;
\* every fourth sample from the third on has no "cache" entry (what a
\* cgroup v2 host reports), and every fourth sample reports more cache than
\* usage (the two counters are read at different moments).
MemoryStats(s) ==
    [Usage |-> 100 * s,
     Stats |-> CASE s % 4 = 3 -> EmptyMap
                 [] s % 4 = 0 -> [k \in {"cache"} |-> 100 * s + 20]
                 [] OTHER -> [k \in {"cache"} |-> 20],
     Limit |-> 1000]

\* a decoded types.StatsJSON; odd samples have one interface, even ones two
StatsJSON(s) ==
    [PidsStats |-> [Current |-> s],
     CPUStats |-> [CPUUsage |-> [UsageInUsermode |-> 500000000 * s,
                                 UsageInKernelmode |-> 100 * s,
                                 TotalUsage |-> 500000000 * s + 100 * s]],
     MemoryStats |-> MemoryStats(s),
     Networks |-> IF s % 2 = 1
                  THEN [i \in {"eth0"} |-> NetworkStats(s)]
                  ELSE [i \in {"eth0", "lo"} |->
                           IF i = "eth0" THEN NetworkStats(s) ELSE NetworkStats(s + 4)]]

\* a unix.Statfs_t
Statfs_t(k) ==
    [Bsize |-> 4, Blocks |-> 100 * k, Bfree |-> 50 * k, Bavail |-> 40 * k,
     Files |-> 1000 * k, Ffree |-> 600 * k]

\* what unix.Statfs gives for one path: an error, or the k-th Statfs_t
StatfsOutcomes ==
    {[err |-> TRUE, k |-> 0]} \cup {[err |-> FALSE, k |-> k] : k \in 1..NumFs}

\* the entries ioutil.ReadDir may find under the base path, in the order
\* ReadDir returns them (sorted by name)
AllDirEntries ==
    <<[Name |-> "db", IsDir |-> TRUE],
      [Name |-> "logs", IsDir |-> TRUE],
      [Name |-> "notes.txt", IsDir |-> FALSE]>>

(***************************************************************************)
(* setup(): the gauge vectors and their label schemas.                     *)
(***************************************************************************)
ContainerSeries ==
    <<containerPrefix \o "pids",
      containerPrefix \o "cpu_usage_user_seconds_total",
      containerPrefix \o "cpu_usage_kernel_seconds_total",
      containerPrefix \o "cpu_usage_seconds_total",
      containerPrefix \o "memory_usage_bytes",
      containerPrefix \o "memory_limit_bytes">>

NetworkSeries ==
    <<containerPrefix \o "network_receive_bytes_total",
      containerPrefix \o "network_transmit_bytes_total",
      containerPrefix \o "network_receive_packets_total",
      containerPrefix \o "network_transmit_packets_total",
      containerPrefix \o "network_receive_errors_total",
      containerPrefix \o "network_transmit_errors_total",
      containerPrefix \o "network_receive_dropped_total",
      containerPrefix \o "network_transmit_dropped_total">>

DataSeries ==
    <<dataPrefix \o "free_bytes",
      dataPrefix \o "available_bytes",
      dataPrefix \o "size_bytes",
      dataPrefix \o "free_inodes",
      dataPrefix \o "inodes">>

Range(seq) == {seq[i] : i \in 1..Len(seq)}

AllSeries == Range(ContainerSeries) \cup Range(NetworkSeries) \cup Range(DataSeries)

(***************************************************************************)
(* Label sets.                                                             *)
(***************************************************************************)
\* (faulty variant: the container-level labels without the container's identity)
ComposeLabelsOnly(container) ==
    [container_id |-> "",
     container_name |-> "",
     compose_project |-> MapGet(container.Labels, composeProjectKey),
     compose_service |-> MapGet(container.Labels, composeServiceKey),
     container_image_id |-> TrimPrefix(container.ImageID, "sha256:"),
     container_image_name |-> container.Image]

\* the labels of the six container-level series
ContainerLabels(container) ==
    [container_id |-> container.ID,
     container_name |-> TrimPrefix(container.Names[1], "/"),
     compose_project |-> MapGet(container.Labels, composeProjectKey),
     compose_service |-> MapGet(container.Labels, composeServiceKey),
     container_image_id |-> TrimPrefix(container.ImageID, "sha256:"),
     container_image_name |-> container.Image]

\* the labels of the eight network series of one interface
NetworkLabels(container, intf) ==
    [container_id |-> container.ID,
     container_name |-> TrimPrefix(container.Names[1], "/"),
     compose_project |-> MapGet(container.Labels, composeProjectKey),
     compose_service |-> MapGet(container.Labels, composeServiceKey),
     container_image_id |-> TrimPrefix(container.ImageID, "sha256:"),
     container_image_name |-> container.Image,
     interface |-> intf]

\* (faulty variant: the interface is left out of the key)
ContainerIDKey(container, intf) == container.ID

\* (faulty variant: the container ID is left out of the key)
InterfaceKey(container, intf) == intf

\* the key of newKnownContainerNetworks
NetworkKey(container, intf) == container.ID \o intf

\* the labels of the five filesystem series
DataLabels(path) == [data_name |-> path]

(***************************************************************************)
(* The values the loop sets.                                               *)
(***************************************************************************)
ContainerValue(k, stats) ==
    CASE k = 1 -> Float64(stats.PidsStats.Current)
      [] k = 2 -> FloatDiv(Float64(stats.CPUStats.CPUUsage.UsageInUsermode), NanosPerSecond)
      [] k = 3 -> FloatDiv(Float64(stats.CPUStats.CPUUsage.UsageInKernelmode), NanosPerSecond)
      [] k = 4 -> FloatDiv(Float64(stats.CPUStats.CPUUsage.TotalUsage), NanosPerSecond)
      [] k = 5 -> Float64(Uint64Sub(stats.MemoryStats.Usage,
                                    MapGetUint(stats.MemoryStats.Stats, "cache")))
      [] k = 6 -> Float64(stats.MemoryStats.Limit)

NetworkValue(k, net) ==
    CASE k = 1 -> Float64(net.RxBytes)
      [] k = 2 -> Float64(net.TxBytes)
      [] k = 3 -> Float64(net.RxPackets)
      [] k = 4 -> Float64(net.TxPackets)
      [] k = 5 -> Float64(net.RxErrors)
      [] k = 6 -> Float64(net.TxErrors)
      [] k = 7 -> Float64(net.RxDropped)
      [] k = 8 -> Float64(net.TxDropped)

DataValue(k, fs) ==
    CASE k = 1 -> Float64(fs.Bfree * fs.Bsize)
      [] k = 2 -> Float64(fs.Bavail * fs.Bsize)
      [] k = 3 -> Float64(fs.Blocks * fs.Bsize)
      [] k = 4 -> Float64(fs.Ffree)
      [] k = 5 -> Float64(fs.Files)

(***************************************************************************)
(* The gauge vectors (prometheus.GaugeVec).  registry[name] maps each      *)
(* label set that has a gauge to [val, set]: val is the float64 the gauge  *)
(* holds, and set (a history flag) says that val was stored by a Set call  *)
(* rather than being the zero a new gauge starts with.                     *)
(***************************************************************************)
\* vec.With(labels): the gauge of that label set, created at zero if absent
With(reg, name, labels) ==
    IF labels \in DOMAIN reg[name] THEN reg
    ELSE [reg EXCEPT ![name] =
            [l \in DOMAIN reg[name] \cup {labels} |->
                IF l = labels THEN [val |-> ZeroValue, set |-> FALSE]
                ELSE reg[name][l]]]

\* gauge.Set(v) on the gauge With returned
Set(reg, name, labels, v) ==
    [reg EXCEPT ![name] = [@ EXCEPT ![labels] = [val |-> v, set |-> TRUE]]]

\* (faulty variant: vec.Reset(), which removes every gauge of the vector)
Reset(reg, name, labels) == [reg EXCEPT ![name] = EmptyMap]

\* vec.Delete(labels): removes the gauge if there is one, else does nothing
Delete(reg, name, labels) ==
    [reg EXCEPT ![name] = [l \in DOMAIN reg[name] \ {labels} |-> reg[name][l]]]

\* Delete(labels) on every gauge vector of a list, one after the other
RECURSIVE DeleteAll(_, _, _)
\* (faulty variant: only the first gauge vector of the list is told to delete)
DeleteFirstOnly(reg, names, labels) ==
    IF names = <<>> THEN reg ELSE Delete(reg, Head(names), labels)

DeleteAll(reg, names, labels) ==
    IF names = <<>> THEN reg
    ELSE DeleteAll(Delete(reg, Head(names), labels), Tail(names), labels)

(***************************************************************************)
(* State.                                                                  *)
(***************************************************************************)
VARIABLES
    basepath,                   \* main: os.Args[1], or "/" without argument
    host,                       \* the containers the docker host may run
    samples,                    \* the usage samples its runtime may answer
    registry,                   \* the nineteen gauge vectors
    knownContainerIDs,          \* container ID -> labels of the last pass
    knownContainerNetworks,     \* container ID + interface -> labels
    knownDataNames,             \* data name -> labels
    knownContainerInfos,        \* src/Dockerfile: JSON of the labels -> labels
    newKnownContainerInfos,     \* src/Dockerfile: updateContainers' local map
    newKnownContainerIDs,       \* updateContainers' local maps
    newKnownContainerNetworks,
    newKnownDataNames,          \* updateDatas' local map
    pc,                         \* where the loop goroutine is
    listErr,                    \* ContainerList of this pass failed
    listing,                    \* containers of this pass, each with the
                                \* answer its stats call gets in this pass;
                                \* kept until the next updateDatas starts
    ci,                         \* position of the range loop in listing
    intfs,                      \* interfaces of stats.Networks not yet ranged
    intf,                       \* the interface of the current iteration
    op,                         \* next registry call of the current block
    todo,                       \* keys a removal loop has not ranged yet
    readErr,                    \* ReadDir of this pass failed
    files,                      \* what ReadDir returned in this pass
    paths,                      \* paths of this pass, each with the answer
                                \* its Statfs call gets in this pass; kept
                                \* until the next updateContainers starts
    pi,                         \* position of the range loop in paths
    datas,                      \* history: "running", or how the updateDatas
                                \* that just returned ended
    prevSampled,                \* history: container ID -> [container,
                                \* sample] as the updateContainers pass
                                \* before the current one sampled it
    prevData,                   \* history: path -> Statfs_t index set by
                                \* the updateDatas pass before the current one
    scraped                     \* what the /metrics handler read last: no
                                \* gauge yet, or one gauge's sample

vars ==
    <<basepath, host, samples, registry, knownContainerIDs, knownContainerNetworks,
      knownDataNames, knownContainerInfos, newKnownContainerInfos, newKnownContainerIDs, newKnownContainerNetworks,
      newKnownDataNames, pc, listErr, listing, ci, intfs, intf, op, todo,
      readErr, files, paths, pi, datas, prevSampled, prevData, scraped>>

containerVars ==
    <<knownContainerIDs, knownContainerNetworks, newKnownContainerIDs,
      newKnownContainerNetworks, listErr, listing, ci, intfs, intf, prevSampled>>

dataVars ==
    <<knownDataNames, newKnownDataNames, readErr, files, paths, pi, datas, prevData>>

\* the container_info snapshot, which only the program of src/Dockerfile has
infoVars == <<knownContainerInfos, newKnownContainerInfos>>

\* the container and the decoded stats of the current loop iteration
container == listing[ci].container
stats == StatsJSON(listing[ci].sample)

\* the path and the Statfs_t of the current loop iteration
path == paths[pi].path
fs == Statfs_t(paths[pi].k)

(***************************************************************************)
(* What the calls of one pass may answer.                                  *)
(***************************************************************************)
\* What ContainerStatsOneShot followed by the JSON decode gives for one
\* container: err says that one of the two calls failed (both log and
\* continue) and sample names the sample decoded (0 when a call failed).
StatsOutcomes ==
    {[err |-> TRUE, sample |-> 0]}
        \cup {[err |-> FALSE, sample |-> s] : s \in samples}

\* the answers ContainerList may give: every order of every set of
\* containers of the host with distinct IDs, each paired with the answer
\* of its stats call
RECURSIVE Listings(_, _)
Listings(h, ids) ==
    {<<>>} \cup
    UNION {{<<[container |-> c, err |-> o.err, sample |-> o.sample]>> \o rest :
                rest \in Listings(h, ids \ {c.ID}), o \in StatsOutcomes} :
           c \in {x \in h : x.ID \in ids}}

\* the containers a pass sampled: ID -> the container and the sample
SampledOf(lst) ==
    LET ok == {i \in 1..Len(lst) : ~lst[i].err}
    IN  [id \in {lst[i].container.ID : i \in ok} |->
            LET i == CHOOSE j \in ok : lst[j].container.ID = id
            IN  [container |-> lst[i].container, sample |-> lst[i].sample]]

\* the subsequences of a sequence: ReadDir's answers
RECURSIVE SubSeqs(_)
SubSeqs(seq) ==
    IF seq = <<>> THEN {<<>>}
    ELSE LET rest == SubSeqs(Tail(seq))
         IN  rest \cup {<<Head(seq)>> \o r : r \in rest}

\* every way the Statfs calls of a pass may answer for a list of names
RECURSIVE PathAnswers(_)
PathAnswers(names) ==
    IF names = <<>> THEN {<<>>}
    ELSE {<<[path |-> Head(names), err |-> o.err, k |-> o.k]>> \o rest :
            o \in StatfsOutcomes, rest \in PathAnswers(Tail(names))}

\* the paths a pass stat'ed: path -> the Statfs_t index
StatedOf(ps) ==
    LET ok == {i \in 1..Len(ps) : ~ps[i].err}
    IN  [p \in {ps[i].path : i \in ok} |->
            ps[CHOOSE j \in ok : ps[j].path = p].k]

\* for _, f := range files { if f.IsDir() { paths = append(paths, f.Name()) } }
RECURSIVE DirNames(_)
\* (faulty variant: every entry is appended, whether or not it is a directory)
RECURSIVE AllNames(_)
AllNames(fl) ==
    IF fl = <<>> THEN <<>> ELSE <<Head(fl).Name>> \o AllNames(Tail(fl))

DirNames(fl) ==
    IF fl = <<>> THEN <<>>
    ELSE (IF Head(fl).IsDir THEN <<Head(fl).Name>> ELSE <<>>) \o DirNames(Tail(fl))

EmptyRegistry == [name \in AllSeries |-> EmptyMap]

(***************************************************************************)
(* Initial states: main has run setup() and started updateMetrics; the     *)
(* three global maps are nil and no gauge exists.                          *)
(***************************************************************************)
InitOf(bp, h, ss, reg) ==
    /\ basepath = bp
    /\ host = h
    /\ samples = ss
    /\ registry = reg
    /\ knownContainerIDs = EmptyMap
    /\ knownContainerNetworks = EmptyMap
    /\ knownDataNames = EmptyMap
    /\ knownContainerInfos = EmptyMap
    /\ newKnownContainerInfos = EmptyMap
    /\ newKnownContainerIDs = EmptyMap
    /\ newKnownContainerNetworks = EmptyMap
    /\ newKnownDataNames = EmptyMap
    /\ pc = "updateContainers"
    /\ listErr = FALSE
    /\ listing = <<>>
    /\ ci = 0
    /\ intfs = {}
    /\ intf = ""
    /\ op = 0
    /\ todo = {}
    /\ readErr = FALSE
    /\ files = <<>>
    /\ paths = <<>>
    /\ pi = 0
    /\ datas = "none"
    /\ prevSampled = EmptyMap
    /\ prevData = EmptyMap
    /\ scraped = {}

\* a deployment whose runtime answers the samples 1..NumSamples
InitWith(bp, h) == InitOf(bp, h, 1..NumSamples, EmptyRegistry)

\* The deployments checked: docker-stats started without argument (the
\* image's CMD ["/"]) on a host with two containers, the same on a host whose
\* container is renamed while it runs, and docker-stats started on a data
\* directory on a host with one container.
Deployments ==
    {[basepath |-> "/", host |-> {Container("c1", "/web-1"), Container("c2", "/web-2")}],
     [basepath |-> "/", host |-> {Container("c1", "/web-1"), Container("c1", "/web-9")}],
     [basepath |-> "/data", host |-> {Container("c2", "/web-2")}]}

Init == \E d \in Deployments : InitWith(d.basepath, d.host)

(***************************************************************************)
(* updateContainers                                                        *)
(***************************************************************************)
\* (faulty variant: a failed ContainerList returns from updateContainers)
ReturnOnListError == "updateDatas"

\* where the loop goes on after a failed ContainerList: into the range loop
\* over the (nil) list
AfterListError == "forContainers"

\* (faulty variant: a failed stats call leaves the range loop)
BreakOnStatsError == "rangeKnownContainerIDs"

\* where the loop goes on after a failed stats call or decode: continue
AfterStatsError == "forContainers"

\* (faulty variant: a key counts as gone when the container is not in the listing)
IsNilUnlisted(new, id) ==
    \A i \in 1..Len(listing) :
        SubSeq(id, 1, Len(listing[i].container.ID)) # listing[i].container.ID

\* (faulty variant: every key of the previous snapshot counts as gone)
IsNilAlways(new, id) == TRUE

\* newKnownContainerIDs[id] == nil, newKnownContainerNetworks[id] == nil,
\* newKnownDataNames[id] == nil
IsNil(new, id) == id \notin DOMAIN new

\* lines 165-170: the two new maps and ContainerList (todo: the keys the
\* first removal loop will range over).  A failed ContainerList is logged
\* and the function goes on with the list the client returned with the
\* error, which is nil.
UpdateContainers ==
    /\ pc = "updateContainers"
    /\ newKnownContainerIDs' = EmptyMap
    /\ newKnownContainerNetworks' = EmptyMap
    /\ \/ /\ listErr' = TRUE
          /\ listing' = <<>>
          /\ pc' = AfterListError
       \/ /\ listErr' = FALSE
          /\ listing' \in Listings(host, {c.ID : c \in host})
          /\ pc' = "forContainers"
    /\ ci' = 0
    /\ todo' = DOMAIN knownContainerIDs
    /\ prevData' = StatedOf(paths)
    /\ readErr' = FALSE
    /\ files' = <<>>
    /\ paths' = <<>>
    /\ pi' = 0
    /\ datas' = "none"
    /\ UNCHANGED infoVars
    /\ UNCHANGED <<basepath, host, samples, scraped, registry, knownContainerIDs, knownContainerNetworks,
                   intfs, intf, op, prevSampled, knownDataNames, newKnownDataNames>>

\* lines 171-192: the next container of the list, its stats call, its labels.
\* container.Names[0] on an empty Names is an index out of range: the runtime
\* panics, nothing recovers it, and the process ends (pc = "panic", where no
\* action is enabled).
ForContainers ==
    /\ pc = "forContainers"
    /\ IF ci = Len(listing)
       THEN /\ pc' = "rangeKnownContainerIDs"
            /\ UNCHANGED <<ci, newKnownContainerIDs, op>>
       ELSE /\ ci' = ci + 1
            /\ IF listing[ci + 1].err
               THEN /\ pc' = AfterStatsError
                    /\ UNCHANGED <<newKnownContainerIDs, op>>
               ELSE IF listing[ci + 1].container.Names = <<>>
               THEN /\ pc' = "panic"
                    /\ UNCHANGED <<newKnownContainerIDs, op>>
               ELSE /\ newKnownContainerIDs' =
                            MapPut(newKnownContainerIDs, listing[ci + 1].container.ID,
                                   ContainerLabels(listing[ci + 1].container))
                    /\ op' = 1
                    /\ pc' = "setContainer"
    /\ UNCHANGED infoVars
    /\ UNCHANGED <<basepath, host, samples, scraped, registry, knownContainerIDs, knownContainerNetworks,
                   newKnownContainerNetworks, listErr, listing, intfs, intf, todo,
                   prevSampled>>
    /\ UNCHANGED dataVars

\* lines 194-199: one With or one Set of the six container-level gauges
SetContainer ==
    /\ pc = "setContainer"
    /\ LET k == (op + 1) \div 2
           name == ContainerSeries[k]
           labels == ContainerLabels(container)
       IN  registry' = IF op % 2 = 1 THEN With(registry, name, labels)
                       ELSE Set(registry, name, labels, ContainerValue(k, stats))
    /\ IF op = 2 * Len(ContainerSeries)
       THEN /\ pc' = "rangeNetworks"
            /\ intfs' = DOMAIN stats.Networks
            /\ op' = 0
       ELSE /\ op' = op + 1
            /\ UNCHANGED <<pc, intfs>>
    /\ UNCHANGED infoVars
    /\ UNCHANGED <<basepath, host, samples, scraped, knownContainerIDs, knownContainerNetworks,
                   newKnownContainerIDs, newKnownContainerNetworks, listErr, listing,
                   ci, intf, todo, prevSampled>>
    /\ UNCHANGED dataVars

\* lines 201-211: the next interface of stats.Networks (a Go map: any order)
RangeNetworks ==
    /\ pc = "rangeNetworks"
    /\ IF intfs = {}
       THEN /\ pc' = "forContainers"
            /\ intf' = ""
            /\ UNCHANGED <<intfs, newKnownContainerNetworks, op>>
       ELSE \E i \in intfs :
                /\ intf' = i
                /\ intfs' = intfs \ {i}
                /\ newKnownContainerNetworks' =
                        MapPut(newKnownContainerNetworks, NetworkKey(container, i),
                               NetworkLabels(container, i))
                /\ op' = 1
                /\ pc' = "setNetwork"
    /\ UNCHANGED infoVars
    /\ UNCHANGED <<basepath, host, samples, scraped, registry, knownContainerIDs, knownContainerNetworks,
                   newKnownContainerIDs, listErr, listing, ci, todo, prevSampled>>
    /\ UNCHANGED dataVars

\* lines 212-219: one With or one Set of the eight network gauges
SetNetwork ==
    /\ pc = "setNetwork"
    /\ LET k == (op + 1) \div 2
           name == NetworkSeries[k]
           labels == NetworkLabels(container, intf)
       IN  registry' = IF op % 2 = 1 THEN With(registry, name, labels)
                       ELSE Set(registry, name, labels,
                                NetworkValue(k, stats.Networks[intf]))
    /\ IF op = 2 * Len(NetworkSeries)
       THEN /\ pc' = "rangeNetworks"
            /\ op' = 0
       ELSE /\ op' = op + 1
            /\ UNCHANGED pc
    /\ UNCHANGED infoVars
    /\ UNCHANGED <<basepath, host, samples, scraped, knownContainerIDs, knownContainerNetworks,
                   newKnownContainerIDs, newKnownContainerNetworks, listErr, listing,
                   ci, intfs, intf, todo, prevSampled>>
    /\ UNCHANGED dataVars

\* lines 222-231: one iteration of the range over knownContainerIDs (a Go
\* map: any order)
RangeKnownContainerIDs ==
    /\ pc = "rangeKnownContainerIDs"
    /\ IF todo = {}
       THEN /\ pc' = "rangeKnownContainerNetworks"
            /\ todo' = DOMAIN knownContainerNetworks
            /\ UNCHANGED registry
       ELSE \E id \in todo :
                /\ todo' = todo \ {id}
                /\ registry' = IF IsNil(newKnownContainerIDs, id)
                               THEN DeleteAll(registry, ContainerSeries,
                                              knownContainerIDs[id])
                               ELSE registry
                /\ UNCHANGED pc
    /\ UNCHANGED infoVars
    /\ UNCHANGED <<basepath, host, samples, scraped, op>>
    /\ UNCHANGED containerVars
    /\ UNCHANGED dataVars

\* lines 232-245: one iteration of the range over knownContainerNetworks,
\* and after the last one the two assignments and the return
RangeKnownContainerNetworks ==
    /\ pc = "rangeKnownContainerNetworks"
    /\ IF todo = {}
       THEN /\ knownContainerIDs' = newKnownContainerIDs
            /\ knownContainerNetworks' = newKnownContainerNetworks
            /\ pc' = "updateDatas"
            /\ UNCHANGED <<registry, todo>>
       ELSE \E id \in todo :
                /\ todo' = todo \ {id}
                /\ registry' = IF IsNil(newKnownContainerNetworks, id)
                               THEN DeleteAll(registry, NetworkSeries,
                                              knownContainerNetworks[id])
                               ELSE registry
                /\ UNCHANGED <<pc, knownContainerIDs, knownContainerNetworks>>
    /\ UNCHANGED infoVars
    /\ UNCHANGED <<basepath, host, samples, scraped, op, newKnownContainerIDs, newKnownContainerNetworks,
                   listErr, listing, ci, intfs, intf, prevSampled>>
    /\ UNCHANGED dataVars

(***************************************************************************)
(* updateDatas                                                             *)
(***************************************************************************)
\* (faulty variant: a failed ReadDir is logged and the function goes on with
\* no paths)
GoOnAfterReadDirError == "forPaths"

\* where the loop goes on after a failed ReadDir: return, into the next
\* updateContainers
AfterReadDirError == "updateContainers"

\* (faulty variant: a failed Statfs leaves the range loop)
BreakOnStatfsError == "rangeKnownDataNames"

\* where the loop goes on after a failed Statfs: continue
AfterStatfsError == "forPaths"

\* lines 249-264: the new map and the paths of this pass (todo: the keys the
\* removal loop will range over)
UpdateDatas ==
    /\ pc = "updateDatas"
    /\ newKnownDataNames' = EmptyMap
    /\ prevSampled' = SampledOf(listing)
    /\ listErr' = FALSE
    /\ listing' = <<>>
    /\ ci' = 0
    /\ pi' = 0
    /\ todo' = DOMAIN knownDataNames
    /\ IF basepath = "/"
       THEN /\ paths' \in PathAnswers(<<"/">>)
            /\ files' = <<>>
            /\ readErr' = FALSE
            /\ datas' = "running"
            /\ pc' = "forPaths"
       ELSE \/ /\ readErr' = TRUE
               /\ files' = <<>>
               /\ paths' = <<>>
               /\ datas' = "returned"
               /\ pc' = AfterReadDirError
            \/ /\ readErr' = FALSE
               /\ files' \in SubSeqs(AllDirEntries)
               /\ paths' \in PathAnswers(DirNames(files'))
               /\ datas' = "running"
               /\ pc' = "forPaths"
    /\ UNCHANGED infoVars
    /\ UNCHANGED <<basepath, host, samples, scraped, registry, op, knownDataNames, prevData,
                   knownContainerIDs, knownContainerNetworks, newKnownContainerIDs,
                   newKnownContainerNetworks, intfs, intf>>

\* lines 266-273: the next path, its Statfs call, its labels
ForPaths ==
    /\ pc = "forPaths"
    /\ IF pi = Len(paths)
       THEN /\ pc' = "rangeKnownDataNames"
            /\ UNCHANGED <<pi, op>>
       ELSE /\ pi' = pi + 1
            /\ IF paths[pi + 1].err
               THEN /\ pc' = AfterStatfsError
                    /\ UNCHANGED op
               ELSE /\ op' = 1
                    /\ pc' = "setData"
    /\ UNCHANGED infoVars
    /\ UNCHANGED <<basepath, host, samples, scraped, registry, todo, knownDataNames, newKnownDataNames,
                   readErr, files, paths, datas, prevData>>
    /\ UNCHANGED containerVars

\* lines 275-279: one With or one Set of the five filesystem gauges
SetData ==
    /\ pc = "setData"
    /\ LET k == (op + 1) \div 2
           name == DataSeries[k]
           labels == DataLabels(path)
       IN  registry' = IF op % 2 = 1 THEN With(registry, name, labels)
                       ELSE Set(registry, name, labels, DataValue(k, fs))
    /\ IF op = 2 * Len(DataSeries)
       THEN /\ pc' = "forPaths"
            /\ op' = 0
       ELSE /\ op' = op + 1
            /\ UNCHANGED pc
    /\ UNCHANGED infoVars
    /\ UNCHANGED <<basepath, host, samples, scraped, todo>>
    /\ UNCHANGED dataVars
    /\ UNCHANGED containerVars

\* lines 281-290: one iteration of the range over knownDataNames, and after
\* the last one the assignment and the return
RangeKnownDataNames ==
    /\ pc = "rangeKnownDataNames"
    /\ IF todo = {}
       THEN /\ knownDataNames' = newKnownDataNames
            /\ datas' = "completed"
            /\ pc' = "updateContainers"
            /\ UNCHANGED <<registry, todo>>
       ELSE \E id \in todo :
                /\ todo' = todo \ {id}
                /\ registry' = IF IsNil(newKnownDataNames, id)
                               THEN DeleteAll(registry, DataSeries, knownDataNames[id])
                               ELSE registry
                /\ UNCHANGED <<pc, knownDataNames, datas>>
    /\ UNCHANGED infoVars
    /\ UNCHANGED <<basepath, host, samples, scraped, op, newKnownDataNames, readErr, files, paths, pi,
                   prevData>>
    /\ UNCHANGED containerVars

(***************************************************************************)
(* updateMetrics: for { updateContainers(docker); updateDatas(basepath) }  *)
(***************************************************************************)
Next ==
    \/ UpdateContainers
    \/ ForContainers
    \/ SetContainer
    \/ RangeNetworks
    \/ SetNetwork
    \/ RangeKnownContainerIDs
    \/ RangeKnownContainerNetworks
    \/ UpdateDatas
    \/ ForPaths
    \/ SetData
    \/ RangeKnownDataNames

Spec == Init /\ [][Next]_vars

(***************************************************************************)
(* The /metrics handler (main, lines 318-319), run by the HTTP server on   *)
(* its own goroutines while the loop runs.  A scrape reads the gauges one  *)
(* at a time, each with one atomic load; a step is one such read.          *)
(***************************************************************************)
Scrape ==
    /\ \E name \in AllSeries :
           \E labels \in DOMAIN registry[name] :
               scraped' = {[name |-> name, labels |-> labels,
                            val |-> registry[name][labels].val,
                            set |-> registry[name][labels].set]}
    /\ UNCHANGED infoVars
    /\ UNCHANGED <<basepath, host, samples, registry, pc, op, todo>>
    /\ UNCHANGED containerVars
    /\ UNCHANGED dataVars

NextScraped == Next \/ Scrape

\* docker-stats on a host with one container, scraped while it runs
InitScraped == InitWith("/", {Container("c2", "/web-2")})

SpecScraped == InitScraped /\ [][NextScraped]_vars

(***************************************************************************)
(* Vocabulary of the properties.                                           *)
(***************************************************************************)
\* updateContainers has just returned: listing holds what this pass (k+1)
\* was answered and prevSampled what the pass before it (k) sampled
ContainersReturned == pc = "updateDatas"

\* updateDatas has just returned after its removal loop: paths holds what
\* this pass was answered and prevData what the pass before it stat'ed
DatasCompleted == pc = "updateContainers" /\ datas = "completed"

\* the gauge vector has a gauge for the label set
Has(name, labels) == labels \in DOMAIN registry[name]

\* the gauge of the label set holds v, stored by a Set call
Holds(name, labels, v) ==
    Has(name, labels) /\ registry[name][labels] = [val |-> v, set |-> TRUE]

Sampled == SampledOf(listing)
ListedIDs == {listing[i].container.ID : i \in 1..Len(listing)}
FailedIDs == {listing[i].container.ID : i \in {j \in 1..Len(listing) : listing[j].err}}
Stated == StatedOf(paths)

\* the interfaces of a sample
Interfaces(sample) == DOMAIN StatsJSON(sample).Networks

\* the six container-level series of a sampled container hold its sample
ContainerSeriesHold(e) ==
    \A k \in 1..Len(ContainerSeries) :
        Holds(ContainerSeries[k], ContainerLabels(e.container),
              ContainerValue(k, StatsJSON(e.sample)))

\* the eight network series of every interface of a sampled container hold
\* its sample
NetworkSeriesHold(e) ==
    \A i \in Interfaces(e.sample) : \A k \in 1..Len(NetworkSeries) :
        Holds(NetworkSeries[k], NetworkLabels(e.container, i),
              NetworkValue(k, StatsJSON(e.sample).Networks[i]))

\* none of the series a sampled container had is in the registry
ContainerSeriesGone(e) ==
    /\ \A k \in 1..Len(ContainerSeries) :
           ~Has(ContainerSeries[k], ContainerLabels(e.container))
    /\ \A i \in Interfaces(e.sample) : \A k \in 1..Len(NetworkSeries) :
           ~Has(NetworkSeries[k], NetworkLabels(e.container, i))

\* the five filesystem series of a path hold the Statfs_t
DataSeriesHold(p, k0) ==
    \A k \in 1..Len(DataSeries) :
        Holds(DataSeries[k], DataLabels(p), DataValue(k, Statfs_t(k0)))

(***************************************************************************)
(* C1.  Convergence: at the end of every pass, for every series kind, the  *)
(* label sets in the registry are exactly the label sets built from the    *)
(* entities the pass fetched successfully.                                 *)
(* Fails: the filesystem series of a path are never removed, and a renamed *)
(* container leaves the series of its old name behind.                     *)
(***************************************************************************)
C1_Convergence ==
    /\ ContainersReturned =>
        /\ \A k \in 1..Len(ContainerSeries) :
               DOMAIN registry[ContainerSeries[k]] =
                   {ContainerLabels(Sampled[id].container) : id \in DOMAIN Sampled}
        /\ \A k \in 1..Len(NetworkSeries) :
               DOMAIN registry[NetworkSeries[k]] =
                   UNION {{NetworkLabels(Sampled[id].container, i) :
                              i \in Interfaces(Sampled[id].sample)} :
                          id \in DOMAIN Sampled}
    /\ DatasCompleted =>
        \A k \in 1..Len(DataSeries) :
            DOMAIN registry[DataSeries[k]] = {DataLabels(p) : p \in DOMAIN Stated}

(***************************************************************************)
(* C2.  Removal on disappearance: a container sampled in pass k and absent *)
(* from the successful listing of pass k+1 has, when updateContainers of   *)
(* pass k+1 returns, none of the six container-level series and none of    *)
(* the network series of its interfaces that pass k recorded for it.       *)
(***************************************************************************)
C2_RemovalOnDisappearance ==
    (ContainersReturned /\ ~listErr) =>
        \A id \in DOMAIN prevSampled \ ListedIDs : ContainerSeriesGone(prevSampled[id])

\* a container with two interfaces left the listing while another one stayed
C2_Witness ==
    /\ ContainersReturned /\ ~listErr
    /\ \E id \in DOMAIN prevSampled \ ListedIDs :
           Cardinality(Interfaces(prevSampled[id].sample)) = 2
    /\ DOMAIN prevSampled \cap DOMAIN Sampled # {}

C4_MountRemovalOnDisappearance ==
    (DatasCompleted /\ basepath # "/") =>
        \A p \in DOMAIN prevData \ Range(DirNames(files)) :
            \A k \in 1..Len(DataSeries) : ~Has(DataSeries[k], DataLabels(p))

(***************************************************************************)
(* C5.  List-failure degradation: in a pass whose ContainerList fails no   *)
(* gauge is set or created, the pass returns with every label set of the   *)
(* previous snapshot deleted from its gauge vectors and with both          *)
(* snapshots empty, and the loop can go on.                                *)
(***************************************************************************)
C5_Step ==
    listErr' =>
        /\ \A name \in AllSeries : \A l \in DOMAIN registry'[name] :
               l \in DOMAIN registry[name] /\ registry'[name][l] = registry[name][l]
        /\ pc' = "updateDatas" =>
               /\ knownContainerIDs' = EmptyMap
               /\ knownContainerNetworks' = EmptyMap
               /\ \A id \in DOMAIN knownContainerIDs : \A k \in 1..Len(ContainerSeries) :
                      knownContainerIDs[id] \notin DOMAIN registry'[ContainerSeries[k]]
               /\ \A id \in DOMAIN knownContainerNetworks : \A k \in 1..Len(NetworkSeries) :
                      knownContainerNetworks[id] \notin DOMAIN registry'[NetworkSeries[k]]
               /\ \A id \in DOMAIN prevSampled : ContainerSeriesGone(prevSampled[id])'

C5_ListFailureDegrades == [](listErr => ENABLED Next) /\ [][C5_Step]_vars

\* a pass whose listing failed has returned, and the pass before it had
\* sampled a container
C5_Witness == ContainersReturned /\ listErr /\ DOMAIN prevSampled # {}

(***************************************************************************)
(* C6.  Per-container failure isolation: when a pass returns, every listed *)
(* container whose stats call succeeded, before or after a failing one,    *)
(* has its six container-level series set from its sample and is in the    *)
(* snapshot of this pass.                                                  *)
(***************************************************************************)
C6_ContainerFailureIsolation ==
    ContainersReturned =>
        \A id \in DOMAIN Sampled :
            /\ ContainerSeriesHold(Sampled[id])
            /\ id \in DOMAIN newKnownContainerIDs
            /\ newKnownContainerIDs[id] = ContainerLabels(Sampled[id].container)

\* the first listed container failed and the second one was sampled
C6_Witness ==
    /\ ContainersReturned
    /\ Len(listing) = 2
    /\ listing[1].err
    /\ ~listing[2].err

(***************************************************************************)
(* C7.  Same identity reuses the same series: a container ID sampled in    *)
(* two consecutive passes has, after the second, exactly one gauge per     *)
(* container-level series that carries its ID, whatever name the runtime   *)
(* reported in each pass.                                                  *)
(* Fails: a renamed container keeps the gauges of its old name.            *)
(***************************************************************************)
C7_OneSeriesPerContainerID ==
    ContainersReturned =>
        \A id \in DOMAIN prevSampled \cap DOMAIN Sampled :
            \A k \in 1..Len(ContainerSeries) :
                Cardinality({l \in DOMAIN registry[ContainerSeries[k]] :
                                l.container_id = id}) = 1

(***************************************************************************)
(* C8.  A scrape never reads a torn value: what it reads for a gauge was   *)
(* stored by a completed Set call on that gauge, and no scrape keeps the   *)
(* loop from taking its next step.                                         *)
(* Fails: vec.With(labels).Set(v) creates the gauge at zero before it      *)
(* stores v, and a scrape in between reads the zero.                       *)
(***************************************************************************)
C8_ScrapeReadsSetValues ==
    /\ \A r \in scraped : r.set
    /\ ENABLED Next

(***************************************************************************)
(* C9.  Distinct containers get distinct series: two containers sampled in *)
(* one pass with equal compose project and service and different IDs have  *)
(* two different gauges under container_pids when the pass returns, each   *)
(* labelled with its own ID and name and holding its own pids count.       *)
(***************************************************************************)
C9_DistinctContainersDistinctSeries ==
    ContainersReturned =>
        \A a, b \in DOMAIN Sampled :
            LET ca == Sampled[a].container
                cb == Sampled[b].container
                la == ContainerLabels(ca)
                lb == ContainerLabels(cb)
            IN  (/\ a # b
                 /\ MapGet(ca.Labels, composeProjectKey) = MapGet(cb.Labels, composeProjectKey)
                 /\ MapGet(ca.Labels, composeServiceKey) = MapGet(cb.Labels, composeServiceKey))
                => /\ la # lb
                   /\ la.container_id = a
                   /\ lb.container_id = b
                   /\ Holds(ContainerSeries[1], la,
                            Float64(StatsJSON(Sampled[a].sample).PidsStats.Current))
                   /\ Holds(ContainerSeries[1], lb,
                            Float64(StatsJSON(Sampled[b].sample).PidsStats.Current))

\* two containers of the same compose service were sampled in one pass with
\* different pids counts
C9_Witness ==
    /\ ContainersReturned
    /\ \E a, b \in DOMAIN Sampled :
           /\ a # b
           /\ Sampled[a].container.Labels = Sampled[b].container.Labels
           /\ Sampled[a].sample # Sampled[b].sample

(***************************************************************************)
(* C10.  Per-mount failure isolation: in an updateDatas pass, no step      *)
(* creates, changes or deletes a gauge of a path whose Statfs fails in     *)
(* that pass, and when the pass returns every other enumerated path has    *)
(* its five series set from its Statfs_t.                                  *)
(***************************************************************************)
C10_Step ==
    \A i \in 1..Len(paths') : paths'[i].err =>
        \A k \in 1..Len(DataSeries) :
            LET name == DataSeries[k]
                l == DataLabels(paths'[i].path)
            IN  /\ (l \in DOMAIN registry'[name]) = (l \in DOMAIN registry[name])
                /\ l \in DOMAIN registry[name] => registry'[name][l] = registry[name][l]

C10_MountFailureIsolation ==
    /\ [](DatasCompleted => \A p \in DOMAIN Stated : DataSeriesHold(p, Stated[p]))
    /\ [][C10_Step]_vars

\* Statfs failed for the first of two paths, whose series an earlier pass
\* had set, and succeeded for the second
C10_Witness ==
    /\ DatasCompleted
    /\ Len(paths) = 2
    /\ paths[1].err
    /\ ~paths[2].err
    /\ Has(DataSeries[1], DataLabels(paths[1].path))

(***************************************************************************)
(* C11.  Mount enumeration: the paths of an updateDatas pass are the base  *)
(* path alone when the base path is "/", and otherwise the directories     *)
(* among the entries ReadDir returned, each once, never an entry that is   *)
(* no directory; a pass creates filesystem gauges only for these paths;    *)
(* and when the pass returns, each path whose Statfs succeeded has its     *)
(* five series set from its Statfs_t under the single label data_name, and *)
(* no other series carries that data_name.                                 *)
(***************************************************************************)
PathNames == [i \in 1..Len(paths) |-> paths[i].path]

\* the names of the directories among the entries ReadDir returned
Directories == {files[i].Name : i \in {j \in 1..Len(files) : files[j].IsDir}}

C11_Enumerated ==
    datas \in {"running", "completed"} =>
        IF basepath = "/" THEN PathNames = <<"/">>
        ELSE /\ Range(PathNames) = Directories
             /\ Len(PathNames) = Cardinality(Directories)

C11_Sampled ==
    DatasCompleted =>
        \A p \in DOMAIN Stated :
            /\ DataSeriesHold(p, Stated[p])
            /\ DOMAIN DataLabels(p) = {"data_name"}
            /\ {name \in AllSeries :
                   \E l \in DOMAIN registry[name] :
                       "data_name" \in DOMAIN l /\ l.data_name = p} = Range(DataSeries)

C11_Step ==
    \A k \in 1..Len(DataSeries) :
        \A l \in DOMAIN registry'[DataSeries[k]] \ DOMAIN registry[DataSeries[k]] :
            /\ datas' = "running"
            /\ l.data_name \in (IF basepath = "/" THEN {"/"} ELSE Directories')

C11_MountEnumeration == [](C11_Enumerated /\ C11_Sampled) /\ [][C11_Step]_vars

\* a pass on a data directory has returned: ReadDir had found two
\* directories and a file, and Statfs succeeded for both directories
C11_Witness ==
    /\ DatasCompleted
    /\ basepath # "/"
    /\ Len(files) = 3
    /\ DOMAIN Stated = {"db", "logs"}

(***************************************************************************)
(* Hosts whose container descriptors are not those of a compose service:   *)
(* a container started by hand (no compose labels, a name without the      *)
(* leading "/", an image ID without scheme), a container with two names,   *)
(* the first with a doubled "/", and an image ID with a doubled scheme,    *)
(* and a container that the runtime lists without any name.                *)
(***************************************************************************)
Plain == ContainerOf("c3", <<"plain">>, EmptyMap, "ab12")
Doubled == ContainerOf("c4", <<"//double", "/alias">>, ComposeLabels, "sha256:sha256:cd34")
Unnamed == ContainerOf("c5", <<>>, EmptyMap, "sha256:ab12")

DescriptorHosts == {{Plain, Doubled}, {Plain, Unnamed}}

InitDescriptors == \E h \in DescriptorHosts : InitOf("/", h, {1}, EmptyRegistry)

SpecDescriptors == InitDescriptors /\ [][Next]_vars

(***************************************************************************)
(* C12.  Label building does not fail for a descriptor with an ID: the     *)
(* loop never stops on a descriptor, and when a pass returns every listed  *)
(* container whose stats call succeeded is in the snapshot, with "" for    *)
(* the compose labels its descriptor lacks, also when it has no name.      *)
(* Fails: container.Names[0] panics on a descriptor without names.         *)
(***************************************************************************)
C12_LabelBuildingNeverFails ==
    /\ pc # "panic"
    /\ ENABLED Next
    /\ ContainersReturned =>
          \A i \in 1..Len(listing) : ~listing[i].err =>
              LET c == listing[i].container
              IN  /\ c.ID \in DOMAIN knownContainerIDs
                  /\ composeProjectKey \notin DOMAIN c.Labels =>
                         knownContainerIDs[c.ID].compose_project = ""
                  /\ composeServiceKey \notin DOMAIN c.Labels =>
                         knownContainerIDs[c.ID].compose_service = ""

(***************************************************************************)
(* A host with one container whose usage samples cover the three shapes of *)
(* memory_stats: cache below usage, no cache entry, cache above usage.     *)
(***************************************************************************)
InitMemory ==
    InitOf("/", {Container("c2", "/web-2")}, 1..NumMemorySamples, EmptyRegistry)

SpecMemory == InitMemory /\ [][Next]_vars

(***************************************************************************)
(* C13.  Memory working set: when a pass returns, the value of             *)
(* container_memory_usage_bytes of every sampled container lies between 0  *)
(* and the usage bytes U of its sample, and is U minus the cache bytes C   *)
(* (0 without a cache entry) whenever C is at most U.                      *)
(* Fails: the unsigned subtraction wraps around when C is greater than U.  *)
(***************************************************************************)
C13_MemoryWorkingSet ==
    ContainersReturned =>
        \A id \in DOMAIN Sampled :
            LET mem == StatsJSON(Sampled[id].sample).MemoryStats
                U == mem.Usage
                C == IF "cache" \in DOMAIN mem.Stats THEN mem.Stats["cache"] ELSE 0
                g == registry[ContainerSeries[5]][knownContainerIDs[id]]
            IN  /\ g.set
                /\ g.val.den = 1
                /\ 0 <= g.val.num
                /\ g.val.num <= U
                /\ C <= U => g.val.num = U - C

(***************************************************************************)
(* C14.  Name and image-id normalization: when a pass returns, the         *)
(* container_name label of every sampled container is its first name       *)
(* without one leading "/" (unchanged without one, and "//double" gives    *)
(* "/double"), its container_image_id label is the image ID without one    *)
(* leading "sha256:", a container sampled in two passes in a row has one   *)
(* label set per container-level series, and the label set recorded for    *)
(* each of its interfaces agrees with the container-level one on the six   *)
(* shared labels.                                                          *)
(***************************************************************************)
C14_Normalization ==
    ContainersReturned =>
        \A id \in DOMAIN Sampled :
            LET c == Sampled[id].container
                l == knownContainerIDs[id]
                n == c.Names[1]
                img == c.ImageID
            IN  /\ IF SubSeq(n, 1, 1) = "/"
                   THEN n = "/" \o l.container_name
                   ELSE n = l.container_name
                /\ IF Len(img) >= 7 /\ SubSeq(img, 1, 7) = "sha256:"
                   THEN img = "sha256:" \o l.container_image_id
                   ELSE img = l.container_image_id
                /\ c = Plain =>
                       l.container_name = "plain" /\ l.container_image_id = "ab12"
                /\ c = Doubled =>
                       /\ l.container_name = "/double"
                       /\ l.container_image_id = "sha256:cd34"
                /\ \A k \in 1..Len(ContainerSeries) :
                       {x \in DOMAIN registry[ContainerSeries[k]] : x.container_id = id}
                           = {l}
                /\ \A i \in Interfaces(Sampled[id].sample) :
                       LET nl == knownContainerNetworks[NetworkKey(c, i)]
                       IN  /\ DOMAIN nl = DOMAIN l \cup {"interface"}
                           /\ \A f \in DOMAIN l : nl[f] = l[f]
                           /\ nl.interface = i

\* both containers of the first host were sampled, the one with the doubled
\* prefixes for the second time in a row
C14_Witness ==
    /\ ContainersReturned
    /\ DOMAIN Sampled = {"c3", "c4"}
    /\ "c4" \in DOMAIN prevSampled

(***************************************************************************)
(* C15.  Snapshot replacement: when updateContainers returns,              *)
(* knownContainerIDs maps exactly the IDs of the containers sampled in     *)
(* this pass to the labels used for them, and knownContainerNetworks       *)
(* exactly the keys of their interfaces to theirs; when updateDatas        *)
(* returns after its removal loop, knownDataNames maps exactly the paths   *)
(* whose Statfs succeeded in this pass to their labels.                    *)
(* Fails for knownDataNames: updateDatas never stores into                 *)
(* newKnownDataNames, so the snapshot lacks every path of the pass.        *)
(***************************************************************************)
C15_Containers ==
    ContainersReturned =>
        /\ knownContainerIDs =
               [id \in DOMAIN Sampled |-> ContainerLabels(Sampled[id].container)]
        /\ DOMAIN knownContainerNetworks =
               UNION {{NetworkKey(Sampled[id].container, i) :
                          i \in Interfaces(Sampled[id].sample)} : id \in DOMAIN Sampled}
        /\ \A id \in DOMAIN Sampled : \A i \in Interfaces(Sampled[id].sample) :
               knownContainerNetworks[NetworkKey(Sampled[id].container, i)] =
                   NetworkLabels(Sampled[id].container, i)

C15_Datas ==
    DatasCompleted => knownDataNames = [p \in DOMAIN Stated |-> DataLabels(p)]

C15_SnapshotReplacement == C15_Containers /\ C15_Datas

(***************************************************************************)
(* C16.  Interface removal while the container stays: when a pass returns  *)
(* in which a container was sampled that the pass before had sampled too,  *)
(* none of the eight network series holds the labels recorded for an       *)
(* interface of its earlier sample that its new sample lacks, while its    *)
(* six container-level series and the network series of the interfaces of  *)
(* its new sample hold the values of the new sample.                       *)
(***************************************************************************)
C16_InterfaceRemoval ==
    ContainersReturned =>
        \A id \in DOMAIN prevSampled \cap DOMAIN Sampled :
            /\ \A i \in Interfaces(prevSampled[id].sample) \ Interfaces(Sampled[id].sample) :
                   \A k \in 1..Len(NetworkSeries) :
                       ~Has(NetworkSeries[k], NetworkLabels(prevSampled[id].container, i))
            /\ ContainerSeriesHold(Sampled[id])
            /\ NetworkSeriesHold(Sampled[id])

\* a container sampled with the interfaces eth0 and lo was sampled again
\* with eth0 alone
C16_Witness ==
    /\ ContainersReturned
    /\ \E id \in DOMAIN prevSampled \cap DOMAIN Sampled :
           /\ Interfaces(prevSampled[id].sample) = {"eth0", "lo"}
           /\ Interfaces(Sampled[id].sample) = {"eth0"}
           /\ prevSampled[id].container = Sampled[id].container

(***************************************************************************)
(* C17.  Diff frame: a step of a removal loop only deletes gauges, only    *)
(* from the gauge vectors of its kind, and only gauges whose label set the *)
(* previous snapshot records under a key that the snapshot of this pass    *)
(* lacks; it changes no value, and it leaves every gauge of a label set    *)
(* that this pass set where it is.  Wherever a removal loop stands, Delete  *)
(* for a recorded label set that a gauge vector does not hold leaves the   *)
(* gauge vector as it is.                                                  *)
(***************************************************************************)
\* the label sets a pass has recorded or is about to use
RecordedLabels ==
    {knownContainerIDs[id] : id \in DOMAIN knownContainerIDs}
        \cup {newKnownContainerIDs[id] : id \in DOMAIN newKnownContainerIDs}
        \cup {knownContainerNetworks[id] : id \in DOMAIN knownContainerNetworks}
        \cup {newKnownContainerNetworks[id] : id \in DOMAIN newKnownContainerNetworks}
        \cup {DataLabels(paths[i].path) : i \in 1..Len(paths)}

\* the label sets this pass has set gauges for
SetInThisPass ==
    {ContainerLabels(Sampled[id].container) : id \in DOMAIN Sampled}
        \cup UNION {{NetworkLabels(Sampled[id].container, i) :
                        i \in Interfaces(Sampled[id].sample)} : id \in DOMAIN Sampled}
        \cup {DataLabels(p) : p \in DOMAIN Stated}

\* the loop is in one of its three removal loops
Removing ==
    pc \in {"rangeKnownContainerIDs", "rangeKnownContainerNetworks", "rangeKnownDataNames"}

C17_DeleteAbsent ==
    Removing =>
        \A name \in AllSeries : \A l \in RecordedLabels :
            ~Has(name, l) => Delete(registry, name, l)[name] = registry[name]

C17_Step ==
    Removing =>
        LET known == CASE pc = "rangeKnownContainerIDs" -> knownContainerIDs
                       [] pc = "rangeKnownContainerNetworks" -> knownContainerNetworks
                       [] pc = "rangeKnownDataNames" -> knownDataNames
            new == CASE pc = "rangeKnownContainerIDs" -> newKnownContainerIDs
                     [] pc = "rangeKnownContainerNetworks" -> newKnownContainerNetworks
                     [] pc = "rangeKnownDataNames" -> newKnownDataNames
            names == CASE pc = "rangeKnownContainerIDs" -> ContainerSeries
                       [] pc = "rangeKnownContainerNetworks" -> NetworkSeries
                       [] pc = "rangeKnownDataNames" -> DataSeries
            gone == {known[id] : id \in DOMAIN known \ DOMAIN new}
        IN  \A name \in AllSeries :
                /\ \A l \in DOMAIN registry'[name] :
                       l \in DOMAIN registry[name] /\ registry'[name][l] = registry[name][l]
                /\ \A l \in DOMAIN registry[name] \ DOMAIN registry'[name] :
                       name \in Range(names) /\ l \in gone
                /\ \A l \in SetInThisPass \cap DOMAIN registry[name] :
                       l \in DOMAIN registry'[name]

C17_DiffFrame == []C17_DeleteAbsent /\ [][C17_Step]_vars

\* the first removal loop has deleted the gauges of a container that is not
\* in the snapshot of this pass, next to a container that is
C17_Witness ==
    /\ pc = "rangeKnownContainerNetworks"
    /\ DOMAIN newKnownContainerIDs # {}
    /\ \E id \in DOMAIN knownContainerIDs \ DOMAIN newKnownContainerIDs :
           ~Has(ContainerSeries[1], knownContainerIDs[id])

(***************************************************************************)
(* C19.  Interface identity keys are unique.  The runtime's container IDs  *)
(* all have the same length (64 hexadecimal digits; two characters here),  *)
(* so the concatenation of ID and interface name determines both: any two  *)
(* different pairs of an ID and an interface name have different keys.     *)
(* When a pass returns, the network snapshot has one entry per sampled     *)
(* (container, interface) pair, holding the labels of that pair; every     *)
(* pair of the pass before that this pass did not sample has lost the      *)
(* series recorded for it, and every pair sampled again still has its own. *)
(***************************************************************************)
\* the (container, interface) pairs of the containers a pass sampled
PairsOf(sampled) ==
    UNION {{[container |-> sampled[id].container, intf |-> i] :
               i \in Interfaces(sampled[id].sample)} : id \in DOMAIN sampled}

C19_FixedLengthIDs ==
    \A id1, id2 \in {"c1", "c2", "1c"} : \A i1, i2 \in {"eth0", "lo", "c1", "1", "1lo"} :
        <<id1, i1>> # <<id2, i2>> =>
            NetworkKey(Container(id1, "/a"), i1) # NetworkKey(Container(id2, "/b"), i2)

C19_InterfaceKeysUnique ==
    ContainersReturned =>
          /\ C19_FixedLengthIDs
          /\ \A p, q \in PairsOf(Sampled) :
                 p # q => NetworkKey(p.container, p.intf) # NetworkKey(q.container, q.intf)
          /\ Cardinality(DOMAIN knownContainerNetworks) = Cardinality(PairsOf(Sampled))
          /\ \A p \in PairsOf(Sampled) :
                 LET l == knownContainerNetworks[NetworkKey(p.container, p.intf)]
                 IN  /\ l.container_id = p.container.ID
                     /\ l.interface = p.intf
                     /\ \A k \in 1..Len(NetworkSeries) : Has(NetworkSeries[k], l)
          /\ \A p \in PairsOf(prevSampled) :
                 (\A q \in PairsOf(Sampled) :
                      q.container.ID # p.container.ID \/ q.intf # p.intf)
                 => \A k \in 1..Len(NetworkSeries) :
                        ~Has(NetworkSeries[k], NetworkLabels(p.container, p.intf))

\* two containers were sampled with the same interface name, and of two
\* pairs that shared an interface name in the pass before one is gone
C19_Witness ==
    /\ ContainersReturned
    /\ \E p, q \in PairsOf(Sampled) : p.container.ID # q.container.ID /\ p.intf = q.intf
    /\ \E p, q \in PairsOf(prevSampled) :
           /\ p.container.ID # q.container.ID
           /\ p.intf = q.intf
           /\ p \in PairsOf(Sampled)
           /\ q \notin PairsOf(Sampled)

(***************************************************************************)
(* The program of src/Dockerfile (lines 28-333): the variant of            *)
(* docker-stats whose container-level series are labelled by name and      *)
(* compose project and service only, with a container_info series that     *)
(* carries the identity and the state.  Its loop is                        *)
(* for { updateContainers(docker) }.                                       *)
(***************************************************************************)
InfoSeries == containerPrefix \o "info"

CoarseSeries == Range(ContainerSeries) \cup Range(NetworkSeries) \cup {InfoSeries}

\* strconv.FormatBool
FormatBool(b) == IF b THEN "true" ELSE "false"

\* the labels of the six container-level series (lines 216-220)
CoarseContainerLabels(c) ==
    [container_name |-> TrimPrefix(c.Names[1], "/"),
     compose_project |-> MapGet(c.Labels, composeProjectKey),
     compose_service |-> MapGet(c.Labels, composeServiceKey)]

\* the labels of the eight network series of one interface (lines 233-238)
CoarseNetworkLabels(c, i) ==
    [container_name |-> TrimPrefix(c.Names[1], "/"),
     compose_project |-> MapGet(c.Labels, composeProjectKey),
     compose_service |-> MapGet(c.Labels, composeServiceKey),
     interface |-> i]

\* the labels of container_info (lines 253-266); State is the inspect
\* answer's State
InfoLabels(c, State) ==
    [container_id |-> c.ID,
     container_name |-> TrimPrefix(c.Names[1], "/"),
     compose_project |-> MapGet(c.Labels, composeProjectKey),
     compose_service |-> MapGet(c.Labels, composeServiceKey),
     container_image_id |-> TrimPrefix(c.ImageID, "sha256:"),
     container_image_name |-> c.Image,
     container_state |-> c.State,
     container_state_running |-> FormatBool(State.Running),
     container_state_paused |-> FormatBool(State.Paused),
     container_state_restarting |-> FormatBool(State.Restarting),
     container_state_oomkilled |-> FormatBool(State.OOMKilled),
     container_state_dead |-> FormatBool(State.Dead)]

\* the keys of the container_info labels in the order json.Marshal writes a
\* map's keys (sorted)
InfoLabelNames ==
    <<"compose_project", "compose_service", "container_id", "container_image_id",
      "container_image_name", "container_name", "container_state",
      "container_state_dead", "container_state_oomkilled", "container_state_paused",
      "container_state_restarting", "container_state_running">>

\* string(json.Marshal(labels)) for a map[string]string whose keys and
\* values need no escaping: {"k":"v","k":"v"}
RECURSIVE MarshalFields(_, _)
MarshalFields(labels, names) ==
    IF names = <<>> THEN ""
    ELSE "\"" \o Head(names) \o "\":\"" \o labels[Head(names)] \o "\""
            \o (IF Tail(names) = <<>> THEN "" ELSE ",")
            \o MarshalFields(labels, Tail(names))

Marshal(labels) == "{" \o MarshalFields(labels, InfoLabelNames) \o "}"

\* a types.Container with the State the listing reports
CoarseContainer(id, name) ==
    [ID |-> id, Names |-> <<name>>, Labels |-> ComposeLabels,
     ImageID |-> "sha256:ab12", Image |-> "nginx", State |-> "running"]

\* the State of a types.ContainerJSON of a listed container: it runs or it
\* is paused
InspectState(paused) ==
    [Running |-> TRUE, Paused |-> paused, Restarting |-> FALSE,
     OOMKilled |-> FALSE, Dead |-> FALSE]

\* What ContainerInspect, ContainerStatsOneShot and the decode give for one
\* container: err says that one of the three failed (each logs and
\* continues).
CoarseOutcomes ==
    {[err |-> TRUE, sample |-> 0, paused |-> FALSE]}
        \cup {[err |-> FALSE, sample |-> s, paused |-> p] : s \in samples, p \in BOOLEAN}

\* the answers ContainerList may give: containers of the host with distinct
\* IDs and distinct names, in any order
RECURSIVE CoarseListings(_, _)
CoarseListings(h, names) ==
    {<<>>} \cup
    UNION {{<<[container |-> c, err |-> o.err, sample |-> o.sample,
               paused |-> o.paused]>> \o rest :
                rest \in CoarseListings({x \in h : x.ID # c.ID}, names \ {c.Names[1]}),
                o \in CoarseOutcomes} :
           c \in {x \in h : x.Names[1] \in names}}

\* the inspect answer of the current loop iteration
inspect == [State |-> InspectState(listing[ci].paused)]

CoarseRegistry == [name \in CoarseSeries |-> EmptyMap]

\* a compose service whose container web-1 is replaced by a new container
\* of the same name (docker compose up after a change), next to a database
InitCoarse ==
    InitOf("/", {CoarseContainer("c1", "/web-1"), CoarseContainer("c2", "/web-1"),
                 CoarseContainer("c3", "/db-1")}, {1}, CoarseRegistry)

\* lines 188-194: the three new maps and ContainerList (todo: the keys the
\* first removal loop will range over)
CoarseUpdateContainers ==
    /\ pc = "updateContainers"
    /\ newKnownContainerIDs' = EmptyMap
    /\ newKnownContainerNetworks' = EmptyMap
    /\ newKnownContainerInfos' = EmptyMap
    /\ \/ /\ listErr' = TRUE
          /\ listing' = <<>>
       \/ /\ listErr' = FALSE
          /\ listing' \in CoarseListings(host, {c.Names[1] : c \in host})
    /\ pc' = "forContainers"
    /\ ci' = 0
    /\ todo' = DOMAIN knownContainerIDs
    /\ prevSampled' = SampledOf(listing)
    /\ UNCHANGED <<basepath, host, samples, scraped, registry, knownContainerIDs,
                   knownContainerNetworks, knownContainerInfos, intfs, intf, op>>
    /\ UNCHANGED dataVars

\* lines 195-221: the next container of the list, its inspect and stats
\* calls, and the labels of its container-level series
CoarseForContainers ==
    /\ pc = "forContainers"
    /\ IF ci = Len(listing)
       THEN /\ pc' = "rangeKnownContainerIDs"
            /\ UNCHANGED <<ci, newKnownContainerIDs, op>>
       ELSE /\ ci' = ci + 1
            /\ IF listing[ci + 1].err
               THEN /\ pc' = "forContainers"
                    /\ UNCHANGED <<newKnownContainerIDs, op>>
               ELSE IF listing[ci + 1].container.Names = <<>>
               THEN /\ pc' = "panic"
                    /\ UNCHANGED <<newKnownContainerIDs, op>>
               ELSE /\ newKnownContainerIDs' =
                            MapPut(newKnownContainerIDs, listing[ci + 1].container.ID,
                                   CoarseContainerLabels(listing[ci + 1].container))
                    /\ op' = 1
                    /\ pc' = "setContainer"
    /\ UNCHANGED <<basepath, host, samples, scraped, registry, knownContainerIDs,
                   knownContainerNetworks, newKnownContainerNetworks, listErr, listing,
                   intfs, intf, todo, prevSampled>>
    /\ UNCHANGED infoVars
    /\ UNCHANGED dataVars

\* lines 223-228: one With or one Set of the six container-level gauges
CoarseSetContainer ==
    /\ pc = "setContainer"
    /\ LET k == (op + 1) \div 2
           name == ContainerSeries[k]
           labels == CoarseContainerLabels(container)
       IN  registry' = IF op % 2 = 1 THEN With(registry, name, labels)
                       ELSE Set(registry, name, labels, ContainerValue(k, stats))
    /\ IF op = 2 * Len(ContainerSeries)
       THEN /\ pc' = "rangeNetworks"
            /\ intfs' = DOMAIN stats.Networks
            /\ op' = 0
       ELSE /\ op' = op + 1
            /\ UNCHANGED <<pc, intfs>>
    /\ UNCHANGED <<basepath, host, samples, scraped, knownContainerIDs,
                   knownContainerNetworks, newKnownContainerIDs,
                   newKnownContainerNetworks, listErr, listing, ci, intf, todo,
                   prevSampled>>
    /\ UNCHANGED infoVars
    /\ UNCHANGED dataVars

\* lines 232-239: the next interface of stats.Networks (a Go map: any
\* order); after the last one, lines 252-268: the container_info labels and
\* their key
CoarseRangeNetworks ==
    /\ pc = "rangeNetworks"
    /\ IF intfs = {}
       THEN /\ newKnownContainerInfos' =
                    MapPut(newKnownContainerInfos,
                           Marshal(InfoLabels(container, inspect.State)),
                           InfoLabels(container, inspect.State))
            /\ pc' = "setInfo"
            /\ intf' = ""
            /\ op' = 1
            /\ UNCHANGED <<intfs, newKnownContainerNetworks>>
       ELSE \E i \in intfs :
                /\ intf' = i
                /\ intfs' = intfs \ {i}
                /\ newKnownContainerNetworks' =
                        MapPut(newKnownContainerNetworks, NetworkKey(container, i),
                               CoarseNetworkLabels(container, i))
                /\ op' = 1
                /\ pc' = "setNetwork"
                /\ UNCHANGED newKnownContainerInfos
    /\ UNCHANGED <<basepath, host, samples, scraped, registry, knownContainerIDs,
                   knownContainerNetworks, knownContainerInfos, newKnownContainerIDs,
                   listErr, listing, ci, todo, prevSampled>>
    /\ UNCHANGED dataVars

\* lines 241-248: one With or one Set of the eight network gauges
CoarseSetNetwork ==
    /\ pc = "setNetwork"
    /\ LET k == (op + 1) \div 2
           name == NetworkSeries[k]
           labels == CoarseNetworkLabels(container, intf)
       IN  registry' = IF op % 2 = 1 THEN With(registry, name, labels)
                       ELSE Set(registry, name, labels,
                                NetworkValue(k, stats.Networks[intf]))
    /\ IF op = 2 * Len(NetworkSeries)
       THEN /\ pc' = "rangeNetworks"
            /\ op' = 0
       ELSE /\ op' = op + 1
            /\ UNCHANGED pc
    /\ UNCHANGED <<basepath, host, samples, scraped, knownContainerIDs,
                   knownContainerNetworks, newKnownContainerIDs,
                   newKnownContainerNetworks, listErr, listing, ci, intfs, intf, todo,
                   prevSampled>>
    /\ UNCHANGED infoVars
    /\ UNCHANGED dataVars

\* line 270: containerInfo.With(labels), then .Set(1)
CoarseSetInfo ==
    /\ pc = "setInfo"
    /\ LET labels == InfoLabels(container, inspect.State)
       IN  registry' = IF op = 1 THEN With(registry, InfoSeries, labels)
                       ELSE Set(registry, InfoSeries, labels, Float64(1))
    /\ IF op = 2
       THEN /\ pc' = "forContainers"
            /\ op' = 0
       ELSE /\ op' = op + 1
            /\ UNCHANGED pc
    /\ UNCHANGED <<basepath, host, samples, scraped, knownContainerIDs,
                   knownContainerNetworks, newKnownContainerIDs,
                   newKnownContainerNetworks, listErr, listing, ci, intfs, intf, todo,
                   prevSampled>>
    /\ UNCHANGED infoVars
    /\ UNCHANGED dataVars

\* lines 274-283: one iteration of the range over knownContainerIDs; the
\* same statements as lines 222-231 of src/main.go
CoarseRangeKnownContainerIDs == RangeKnownContainerIDs

\* lines 284-295: one iteration of the range over knownContainerNetworks
CoarseRangeKnownContainerNetworks ==
    /\ pc = "rangeKnownContainerNetworks"
    /\ IF todo = {}
       THEN /\ pc' = "rangeKnownContainerInfos"
            /\ todo' = DOMAIN knownContainerInfos
            /\ UNCHANGED registry
       ELSE \E id \in todo :
                /\ todo' = todo \ {id}
                /\ registry' = IF IsNil(newKnownContainerNetworks, id)
                               THEN DeleteAll(registry, NetworkSeries,
                                              knownContainerNetworks[id])
                               ELSE registry
                /\ UNCHANGED pc
    /\ UNCHANGED <<basepath, host, samples, scraped, op>>
    /\ UNCHANGED containerVars
    /\ UNCHANGED infoVars
    /\ UNCHANGED dataVars

\* lines 296-303: one iteration of the range over knownContainerInfos, and
\* after the last one the three assignments and the return
CoarseRangeKnownContainerInfos ==
    /\ pc = "rangeKnownContainerInfos"
    /\ IF todo = {}
       THEN /\ knownContainerIDs' = newKnownContainerIDs
            /\ knownContainerNetworks' = newKnownContainerNetworks
            /\ knownContainerInfos' = newKnownContainerInfos
            /\ pc' = "updateContainers"
            /\ UNCHANGED <<registry, todo>>
       ELSE \E id \in todo :
                /\ todo' = todo \ {id}
                /\ registry' = IF IsNil(newKnownContainerInfos, id)
                               THEN Delete(registry, InfoSeries, knownContainerInfos[id])
                               ELSE registry
                /\ UNCHANGED <<pc, knownContainerIDs, knownContainerNetworks,
                               knownContainerInfos>>
    /\ UNCHANGED <<basepath, host, samples, scraped, op, newKnownContainerIDs,
                   newKnownContainerNetworks, newKnownContainerInfos, listErr, listing,
                   ci, intfs, intf, prevSampled>>
    /\ UNCHANGED dataVars

\* lines 306-310: for { updateContainers(docker) }
NextCoarse ==
    \/ CoarseUpdateContainers
    \/ CoarseForContainers
    \/ CoarseSetContainer
    \/ CoarseRangeNetworks
    \/ CoarseSetNetwork
    \/ CoarseSetInfo
    \/ CoarseRangeKnownContainerIDs
    \/ CoarseRangeKnownContainerNetworks
    \/ CoarseRangeKnownContainerInfos

SpecCoarse == InitCoarse /\ [][NextCoarse]_vars

(***************************************************************************)
(* C18.  No live series dropped on container replacement: when a pass      *)
(* returns in which a container was sampled whose name and compose labels  *)
(* are those of a container of another ID that the pass before had sampled *)
(* and this pass did not list, the six container-level series hold, under  *)
(* the labels recorded for the new container, the values of its sample.    *)
(* Fails in the program of src/Dockerfile: the labels of the old and the   *)
(* new container are equal there, and the removal loop deletes them.       *)
(***************************************************************************)
\* updateContainers has returned (in the program of src/main.go, listing is
\* empty once updateDatas has started)
PassReturned == pc \in {"updateContainers", "updateDatas"}

\* the sampled containers that replace one the pass before had sampled
Recreated ==
    {id \in DOMAIN Sampled :
        \E old \in DOMAIN prevSampled \ ListedIDs :
            /\ old # id
            /\ prevSampled[old].container.Names = Sampled[id].container.Names
            /\ prevSampled[old].container.Labels = Sampled[id].container.Labels}

C18_NoLiveSeriesDropped ==
    PassReturned =>
        \A id \in Recreated : \A k \in 1..Len(ContainerSeries) :
            Holds(ContainerSeries[k], knownContainerIDs[id],
                  ContainerValue(k, StatsJSON(Sampled[id].sample)))

(***************************************************************************)
(* The loop goroutine under the Go scheduler: as long as every runtime and *)
(* filesystem call returns, the goroutine takes its next step.             *)
(***************************************************************************)
\* docker-stats without argument and docker-stats on a data directory, each
\* on a host with one container
FairDeployments ==
    {[basepath |-> "/", host |-> {Container("c1", "/web-1")}],
     [basepath |-> "/data", host |-> {Container("c2", "/web-2")}]}

InitFair == \E d \in FairDeployments : InitWith(d.basepath, d.host)

FairSpec == InitFair /\ [][Next]_vars /\ WF_vars(Next)

\* the same on the hosts of DescriptorHosts
FairSpecDescriptors == InitDescriptors /\ [][Next]_vars /\ WF_vars(Next)

(***************************************************************************)
(* C20.  The loop never terminates and alternates its two phases: every    *)
(* updateContainers pass is followed by an updateDatas pass and every      *)
(* updateDatas pass by an updateContainers pass, whatever the calls        *)
(* answer; the loop always has a next step; and no call is repeated in a   *)
(* pass: ContainerList and ReadDir are called once, and each iteration of  *)
(* the two range loops moves on to the next container or path, also after  *)
(* a failed call.                                                          *)
(* Holds under FairSpec, whose hosts list every container with a name, for *)
(* every failure of ContainerList, of a stats call, of ReadDir and of      *)
(* Statfs.  Fails under FairSpecDescriptors: the panic on a descriptor     *)
(* without names ends the loop.                                            *)
(***************************************************************************)
C20_Step ==
    /\ pc = "updateContainers" => pc' = "forContainers"
    /\ pc = "updateDatas" => pc' \in {"forPaths", "updateContainers"}
    /\ pc = "forContainers" =>
           IF ci = Len(listing) THEN pc' = "rangeKnownContainerIDs" ELSE ci' = ci + 1
    /\ pc = "forPaths" =>
           IF pi = Len(paths) THEN pc' = "rangeKnownDataNames" ELSE pi' = pi + 1

C20_LoopAlternates ==
    /\ [](ENABLED Next)
    /\ [][C20_Step]_vars
    /\ (pc = "updateContainers") ~> (pc = "updateDatas")
    /\ (pc = "updateDatas") ~> (pc = "updateContainers")

(***************************************************************************)
(* C21.  A continuing container is never transiently missing.  At every    *)
(* point of an updateContainers pass, a container that the previous        *)
(* snapshot records and that this pass samples under the same labels has   *)
(* its six container-level gauges in the registry, each holding the value  *)
(* the previous pass or this pass stored with Set.  A read of /metrics     *)
(* changes no gauge, so whatever step of the pass it follows, it finds     *)
(* them.  Within a pass the sets come before the removals: a step that     *)
(* stores into a container-level vector removes no gauge from it, a step   *)
(* that removes a gauge from one belongs to the first removal loop, and no *)
(* removal step is followed by a set step of the same pass.                *)
(***************************************************************************)
\* the loop is inside updateContainers
InUpdateContainers ==
    pc \in {"forContainers", "setContainer", "rangeNetworks", "setNetwork",
            "rangeKnownContainerIDs", "rangeKnownContainerNetworks"}

\* the positions of the listing whose container continues: recorded by the
\* previous snapshot, sampled in this pass, labels unchanged
Continuing ==
    {i \in 1..Len(listing) :
        /\ ~listing[i].err
        /\ listing[i].container.ID \in DOMAIN knownContainerIDs
        /\ listing[i].container.ID \in DOMAIN prevSampled
        /\ knownContainerIDs[listing[i].container.ID]
                = ContainerLabels(listing[i].container)}

C21_Present ==
    InUpdateContainers =>
        \A i \in Continuing : \A k \in 1..Len(ContainerSeries) :
            LET c == listing[i].container
                before == ContainerValue(k, StatsJSON(prevSampled[c.ID].sample))
                now == ContainerValue(k, StatsJSON(listing[i].sample))
            IN  \/ Holds(ContainerSeries[k], ContainerLabels(c), before)
                \/ Holds(ContainerSeries[k], ContainerLabels(c), now)

C21_Step ==
    InUpdateContainers =>
        /\ \A k \in 1..Len(ContainerSeries) :
               LET was == registry[ContainerSeries[k]]
                   is == registry'[ContainerSeries[k]]
               IN  /\ is # was /\ DOMAIN was \subseteq DOMAIN is
                            => pc = "setContainer"
                   /\ ~(DOMAIN was \subseteq DOMAIN is)
                            => pc = "rangeKnownContainerIDs"
        /\ pc \in {"rangeKnownContainerIDs", "rangeKnownContainerNetworks"}
                => pc' \in {"rangeKnownContainerIDs", "rangeKnownContainerNetworks",
                            "updateDatas"}

ReadDirFailed == pc = "updateContainers" /\ datas = "returned"

C22_Kept ==
    /\ readErr => basepath # "/"
    /\ ReadDirFailed =>
           /\ readErr
           /\ \A p \in DOMAIN prevData : DataSeriesHold(p, prevData[p])

C22_Step ==
    pc = "updateDatas" /\ readErr' =>
        /\ pc' = "updateContainers"
        /\ registry' = registry
        /\ knownDataNames' = knownDataNames
        /\ knownContainerIDs' = knownContainerIDs
        /\ knownContainerNetworks' = knownContainerNetworks

C22_ReadDirFailureKeepsState == []C22_Kept /\ [][C22_Step]_vars

\* ReadDir failed in the pass after one that stat'ed a directory, on a host
\* whose container has been sampled
C22_Witness ==
    /\ ReadDirFailed
    /\ basepath = "/data"
    /\ prevData # EmptyMap
    /\ \E p \in DOMAIN prevData : Has(DataSeries[1], DataLabels(p))
    /\ knownContainerIDs # EmptyMap
====
